---- MODULE Spec2Model ----
(***************************************************************************)
(* Model of FFICandidateBlock (validator/src/journal/candidate_block.rs):  *)
(* the candidate-block assembler of the validator.  One candidate is       *)
(* modelled from construction on; its operations add_batch, summarize,     *)
(* finalize and cancel are the actions.                                    *)
(*                                                                         *)
(* Option<T> values are sequences of length 0 (None) or 1 (Some(x)).       *)
(* Batches and transactions are named by their header signatures.          *)
(***************************************************************************)
EXTENDS Integers, Sequences, FiniteSets, TLC

\* ------------------------------------------------------------------ bounds
\* add_batch calls made on one candidate
MaxAddCalls == 3
\* executions of the body of summarize (past its two early returns)
MaxSummarizeRuns == 2

\* ------------------------------------------------------- the input universe
\* Batches supplied by the caller of add_batch.
ExternalBatches == {"B1", "B2", "B3", "B4", "B5", "BR", "BC"}

\* batch_injectors: Vec<PyObject>, by position
Injectors == {1, 2}

\* The values of max_batches a candidate is constructed with (0: no limit)
MaxBatchesValues == {0, 2}

\* The one batch injector j hands out.  Injected batches are built and signed
\* by the injector for this candidate: their identifiers and transactions are
\* disjoint from those of caller-supplied batches and of the commit store
\* (spec 4.4: an injector's output is trusted for content).
InjectedBatchOf(j) ==
    CASE j = 1 -> "I1"
      [] j = 2 -> "I2"
      [] OTHER -> "I3"

\* batch.transactions(): the transaction identifiers, in order
transactions(batch) ==
    CASE batch = "B1" -> <<"t1">>
      [] batch = "B2" -> <<"t2">>
      [] batch = "B3" -> <<"t3", "t1">>
      [] batch = "B4" -> <<"t1", "t4">>
      [] batch = "B5" -> <<"t1", "tc">>
      [] batch = "BR" -> <<"t6">>
      [] batch = "BC" -> <<"t7">>
      [] batch = "I1" -> <<"ti1">>
      [] batch = "I2" -> <<"ti2">>
      [] OTHER -> <<"ti3">>

\* txn_header.dependencies()
dependencies(txn) ==
    CASE txn = "t2" -> {"t1"}
      [] txn = "t3" -> {"t2"}
      [] txn = "t4" -> {"t1"}
      [] OTHER -> {}

\* commit_store.contains_transaction: the transactions of the committed chain.
\* The commit store is read-only and does not change while the candidate lives.
StoreTxns == {"tc"}

\* commit_store.contains_batch
StoreBatches == {"BC"}

\* Batches the chain's validation rules refuse in a block (the on-chain
\* setting is fixed for the candidate, so the verdict is a function of the
\* proposed sequence).
RuleViolatingBatches == {"BR"}

\* ValidationRuleEnforcer::add_batches(&batches_to_test)
add_batches(batches_to_test) ==
    IF \E i \in 1..Len(batches_to_test) : batches_to_test[i] \in RuleViolatingBatches
    THEN "Ok_false"
    ELSE "Ok_true"

\* The results the execution of a batch is taken to end with: none (no result
\* by the time complete returns), valid (every transaction valid) or invalid.
possible_results(batch) ==
    CASE batch = "B1" -> {"valid", "invalid"}
      [] batch = "B2" -> {"valid", "none"}
      [] batch = "B3" -> {"valid"}
      [] batch = "B4" -> {"valid"}
      [] batch = "I1" -> {"invalid"}
      [] batch = "I2" -> {"valid", "none"}
      [] OTHER -> {"valid", "invalid"}

\* The settings view of the previous block, from which the enforcer is built
\* on every add_batch: the rules setting can be read from it or not.  It is
\* fixed when the candidate is constructed.
SettingsViews == {"readable", "unreadable"}

\* How the enforcer answers for a sequence it does not let through: the rules
\* are violated, Ok(false), or the evaluation ends in an error
Refusals == {"Ok_false", "Err_InvalidBatches", "Err_other"}

\* The refusals to consider for a call: they matter only when the batch
\* offered is one the enforcer does not let through
RefusalsFor(batch) ==
    IF batch \in RuleViolatingBatches THEN Refusals ELSE {"Ok_false"}

\* What an injector's block_start call does: it returns a list of batches,
\* returns something that is not a list, or raises.
ReturnsList(batches) == [kind |-> "list", batches |-> batches]

NotAList == [kind |-> "not_a_list", batches |-> <<>>]

Raises == [kind |-> "raise", batches |-> <<>>]

\* What the injectors do when add_batch polls them, injector by injector
InjectorOutcomes ==
    { [j \in Injectors |-> ReturnsList(<<>>)],
      [j \in Injectors |-> ReturnsList(<<InjectedBatchOf(j)>>)],
      [j \in Injectors |-> IF j = 1 THEN NotAList ELSE ReturnsList(<<InjectedBatchOf(j)>>)],
      [j \in Injectors |-> IF j = 1 THEN Raises ELSE ReturnsList(<<InjectedBatchOf(j)>>)],
      [j \in Injectors |-> IF j = 1 THEN ReturnsList(<<InjectedBatchOf(j)>>) ELSE Raises] }

\* ---------------------------------------------------------------- helpers
None == <<>>

Some(x) == <<x>>

SeqToSet(s) == {s[i] : i \in 1..Len(s)}

RECURSIVE FilterSeq(_, _)
FilterSeq(s, keep) ==
    IF s = <<>> THEN <<>>
    ELSE IF Head(s) \in keep THEN <<Head(s)>> \o FilterSeq(Tail(s), keep)
    ELSE FilterSeq(Tail(s), keep)

\* sha256_digest_strs: a digest of the ordered list of identifiers, taken to be
\* collision free
sha256_digest_strs(batch_ids) == <<"sha256", batch_ids>>

\* --------------------------------------------------------------- the state
VARIABLES
    max_batches,          \* FFICandidateBlock.max_batches
    settings_view,        \* FFICandidateBlock.settings_view
    summary,              \* Option<Vec<u8>>
    remaining_batches,    \* Vec<Batch>
    pending_batches,      \* Vec<Batch>
    pending_batch_ids,    \* HashSet<String>
    injected_batch_ids,   \* HashSet<String>
    committed_txn_cache,  \* the cache's own (provisional) identifier set
    builder_batches,      \* block_builder.batches (the block-assembly object)
    sched_batches,        \* batches submitted to the scheduler: <<id, injected>>
    sched_finalized,      \* scheduler.finalize was called
    sched_cancelled,      \* scheduler.cancel was called
    exec_results,         \* Option<ExecutionResults>, known once complete returned
    crashed,              \* a panic (unwrap/expect) ended the candidate's thread
    polls,                \* history: block_start calls made on each injector
    disciplined,          \* history: every add_batch was made with can_add_batch
    addCalls,             \* history: add_batch calls made
    sumRuns,              \* history: runs of the body of summarize
    lastSum,              \* history: result of summarize(force) since the last add_batch
    last                  \* history: the last call and what it returned

vars == <<max_batches, settings_view, summary, remaining_batches, pending_batches, pending_batch_ids,
          injected_batch_ids, committed_txn_cache, builder_batches, sched_batches,
          sched_finalized, sched_cancelled, exec_results, crashed, polls, disciplined,
          addCalls, sumRuns, lastSum, last>>

NoCall == [kind |-> "NoCall", digest |-> <<>>]

NoSummarize == [force |-> FALSE, result |-> NoCall]

NoLast == [op |-> "new", outcome |-> "", polled |-> FALSE, verdict |-> "",
           scheduler |-> "ok",
           result |-> NoCall, block |-> None, remaining |-> <<>>, last_batch |-> None,
           injected |-> {}]

\* FFICandidateBlock::new
Init ==
    /\ max_batches \in MaxBatchesValues
    /\ settings_view \in SettingsViews
    /\ summary = None
    /\ remaining_batches = <<>>
    /\ pending_batches = <<>>
    /\ pending_batch_ids = {}
    /\ injected_batch_ids = {}
    /\ committed_txn_cache = {}
    /\ builder_batches = <<>>
    /\ sched_batches = <<>>
    /\ sched_finalized = FALSE
    /\ sched_cancelled = FALSE
    /\ exec_results = None
    /\ crashed = FALSE
    /\ polls = [j \in Injectors |-> 0]
    /\ disciplined = TRUE
    /\ addCalls = 0
    /\ sumRuns = 0
    /\ lastSum = NoSummarize
    /\ last = NoLast

\* ------------------------------------------------ the committed-txn cache
\* TransactionCommitCache::contains: provisionally added, or in the commit store
CacheContains(cache, id) == id \in cache \/ id \in StoreTxns

\* TransactionCommitCache::add
CacheAdd(cache, id) == cache \cup {id}

\* TransactionCommitCache::remove_batch: removes every transaction of the batch
CacheRemoveBatch(cache, batch) == cache \ SeqToSet(transactions(batch))

\* TransactionCommitCache::add_batch
CacheAddBatch(cache, batch) == cache \cup SeqToSet(transactions(batch))

\* ------------------------------------------------------------- can_add_batch
can_add_batch ==
    /\ summary = None
    /\ (max_batches = 0 \/ Len(pending_batches) < max_batches)

\* --------------------------------------------------------- admission checks
\* a txn_is_already_committed that looks at the cache's own set only
txn_is_already_committed_cache_only(txn, cache) == txn \in cache

txn_is_already_committed(txn, cache) ==
    CacheContains(cache, txn) \/ txn \in StoreTxns

batch_is_already_committed(batch) ==
    batch \in pending_batch_ids \/ batch \in StoreBatches

\* check_transaction_dependencies always reads self.committed_txn_cache, the
\* admission-time cache, given here as it stands at the time of the call
check_transaction_dependencies(txn, admission_cache) ==
    \A dep \in dependencies(txn) : CacheContains(admission_cache, dep)

\* check_batch_dependencies_add_batch, from transaction i on, with
\* self.committed_txn_cache as mutated so far.  [ok, cache, why]
RECURSIVE check_batch_dependencies_add_batch(_, _, _)
check_batch_dependencies_add_batch(batch, i, cache) ==
    IF i > Len(transactions(batch))
    THEN [ok |-> TRUE, cache |-> cache, why |-> "ok"]
    ELSE LET txn == transactions(batch)[i] IN
         IF txn_is_already_committed(txn, cache)
         THEN [ok |-> FALSE, cache |-> cache, why |-> "txn_committed"]
         ELSE IF ~check_transaction_dependencies(txn, cache)
         THEN [ok |-> FALSE, cache |-> CacheRemoveBatch(cache, batch), why |-> "missing_dep"]
         ELSE check_batch_dependencies_add_batch(batch, i + 1, CacheAdd(cache, txn))

\* poll_injectors with the block_start closure of add_batch, from injector j
\* on: the batches collected so far, injected_batch_ids as inserted so far, and
\* whether a block_start call raised (the expect then panics; the injectors
\* after it are not called).  [batches, ids, raised, polled]
RECURSIVE poll_injectors(_, _, _, _, _)
poll_injectors(out, j, batches, ids, polled) ==
    IF j \notin Injectors
    THEN [batches |-> batches, ids |-> ids, raised |-> FALSE, polled |-> polled]
    ELSE IF out[j].kind = "raise"
    THEN [batches |-> batches, ids |-> ids, raised |-> TRUE, polled |-> polled \cup {j}]
    ELSE poll_injectors(out, j + 1, batches \o out[j].batches,
                        ids \cup SeqToSet(out[j].batches), polled \cup {j})

\* The loop that ends add_batch: each batch is pushed on pending_batches, its
\* identifier inserted, and the batch handed to the scheduler, whose add_batch
\* fails once the scheduler is finalized; the unwrap then panics with the
\* batch already pushed.  [pending, ids, sched, crashed]
\* an append loop that records the identifier of caller-supplied batches only
RECURSIVE append_batches_skipping_injected_ids(_, _, _, _, _)
append_batches_skipping_injected_ids(batches_to_add, pending, ids, sched, injected_ids) ==
    IF batches_to_add = <<>>
    THEN [pending |-> pending, ids |-> ids, sched |-> sched, crashed |-> FALSE]
    ELSE LET b == Head(batches_to_add)
             ids_after == IF b \in injected_ids THEN ids ELSE ids \cup {b}
         IN  IF sched_finalized
             THEN [pending |-> Append(pending, b), ids |-> ids_after, sched |-> sched,
                   crashed |-> TRUE]
             ELSE append_batches_skipping_injected_ids(
                      Tail(batches_to_add), Append(pending, b), ids_after,
                      Append(sched, <<b, b \in injected_ids>>), injected_ids)

RECURSIVE append_batches(_, _, _, _, _)
append_batches(batches_to_add, pending, ids, sched, injected_ids) ==
    IF batches_to_add = <<>>
    THEN [pending |-> pending, ids |-> ids, sched |-> sched, crashed |-> FALSE]
    ELSE LET b == Head(batches_to_add) IN
         IF sched_finalized
         THEN [pending |-> Append(pending, b), ids |-> ids \cup {b}, sched |-> sched,
               crashed |-> TRUE]
         ELSE append_batches(Tail(batches_to_add), Append(pending, b), ids \cup {b},
                             Append(sched, <<b, b \in injected_ids>>), injected_ids)

\* an add_batch that polls the injectors on every call
polls_injectors_on_every_call == TRUE

\* add_batch polls the injectors when pending_batches is empty
polls_injectors == pending_batches = <<>>

\* ValidationRuleEnforcer::new(&self.settings_view, ..), whose failure the
\* expect turns into a panic ("Err_new"), then add_batches(&batches_to_test);
\* refusal is the answer the enforcer gives if it does not let the sequence
\* through
enforcer_verdict(refusal, batches_to_test) ==
    IF settings_view = "unreadable" THEN "Err_new"
    ELSE IF add_batches(batches_to_test) = "Ok_true" THEN "Ok_true"
    ELSE refusal

\* an add_batch that goes on to its append loop whatever the enforcer answers
rules_allow_anything(verdict) == TRUE

\* the match on the enforcer's answer: Ok(true) falls through to the append
\* loop, any other answer returns
rules_allow(verdict) == verdict = "Ok_true"

AddReturn(outcome, polled) ==
    [NoLast EXCEPT !.op = "add_batch", !.outcome = outcome, !.polled = polled]

\* add_batch(batch); out is what each injector's block_start would do
AddBatch(batch, out, refusal) ==
    /\ ~crashed
    /\ addCalls < MaxAddCalls
    /\ addCalls' = addCalls + 1
    /\ disciplined' = (disciplined /\ can_add_batch)
    /\ lastSum' = NoSummarize
    /\ UNCHANGED <<max_batches, settings_view, summary, remaining_batches, builder_batches,
                   sched_finalized, sched_cancelled, exec_results, sumRuns>>
    /\ IF batch_is_already_committed(batch)
       THEN /\ UNCHANGED <<pending_batches, pending_batch_ids, injected_batch_ids,
                           committed_txn_cache, sched_batches, crashed, polls>>
            /\ last' = AddReturn("batch_committed", FALSE)
       ELSE LET chk == check_batch_dependencies_add_batch(batch, 1, committed_txn_cache) IN
            /\ committed_txn_cache' = chk.cache
            /\ IF ~chk.ok
               THEN /\ UNCHANGED <<pending_batches, pending_batch_ids, injected_batch_ids,
                                   sched_batches, crashed, polls>>
                    /\ last' = AddReturn(chk.why, FALSE)
               ELSE LET inj == IF polls_injectors
                               THEN poll_injectors(out, 1, <<>>, injected_batch_ids, {})
                               ELSE [batches |-> <<>>, ids |-> injected_batch_ids,
                                     raised |-> FALSE, polled |-> {}]
                        batches_to_add == Append(inj.batches, batch)
                        batches_to_test == pending_batches \o batches_to_add
                        verdict == enforcer_verdict(refusal, batches_to_test)
                        app == append_batches(batches_to_add, pending_batches,
                                              pending_batch_ids, sched_batches, inj.ids)
                    IN  /\ injected_batch_ids' = inj.ids
                        /\ polls' = [j \in Injectors |->
                                        IF j \in inj.polled THEN polls[j] + 1 ELSE polls[j]]
                        /\ IF inj.raised
                           THEN /\ crashed' = TRUE
                                /\ UNCHANGED <<pending_batches, pending_batch_ids,
                                               sched_batches>>
                                /\ last' = AddReturn("panic_block_start", TRUE)
                           ELSE IF verdict = "Err_new"
                           THEN /\ crashed' = TRUE
                                /\ UNCHANGED <<pending_batches, pending_batch_ids,
                                               sched_batches>>
                                /\ last' = [AddReturn("panic_enforcer_new", inj.polled # {})
                                               EXCEPT !.verdict = verdict]
                           ELSE IF ~rules_allow(verdict)
                           THEN /\ UNCHANGED <<pending_batches, pending_batch_ids,
                                               sched_batches, crashed>>
                                /\ last' = [AddReturn(verdict, inj.polled # {})
                                               EXCEPT !.verdict = verdict]
                           ELSE /\ pending_batches' = app.pending
                                /\ pending_batch_ids' = app.ids
                                /\ sched_batches' = app.sched
                                /\ crashed' = app.crashed
                                /\ last' = [AddReturn(
                                               IF app.crashed THEN "panic_scheduler"
                                                              ELSE "admitted",
                                               inj.polled # {})
                                               EXCEPT !.verdict = verdict,
                                                      !.scheduler =
                                                         IF sched_finalized
                                                         THEN "add_batch_failed"
                                                         ELSE "ok"]

\* ------------------------------------------------------------------ summarize
\* What scheduler.complete(true) can return for the batches submitted: per
\* batch no result, all transactions valid, or some transaction invalid; and
\* whether there is an ending state hash.
ExecutionResults ==
    [batch_results : { r \in [{sched_batches[i][1] : i \in 1..Len(sched_batches)}
                                -> {"none", "valid", "invalid"}] :
                         \A b \in DOMAIN r : r[b] \in possible_results(b) },
     ending_state_hash : BOOLEAN]

\* a summarize that takes every batch to have a result
no_batches_w_no_results(res) == {}

batches_w_no_results(res) ==
    {b \in DOMAIN res.batch_results : res.batch_results[b] = "none"}

\* a valid_batch_ids that takes every batch with a result for valid
batch_ids_with_results(res) ==
    {b \in DOMAIN res.batch_results : res.batch_results[b] # "none"}

valid_batch_ids(res) ==
    {b \in DOMAIN res.batch_results : res.batch_results[b] = "valid"}

\* check_batch_dependencies(batch, committed_txn_cache), from transaction i on:
\* the duplicate test and the insertions use the reconciliation cache, the
\* dependency test (check_transaction_dependencies) self.committed_txn_cache.
RECURSIVE check_batch_dependencies(_, _, _)
check_batch_dependencies(batch, i, cache) ==
    IF i > Len(transactions(batch))
    THEN [ok |-> TRUE, cache |-> cache]
    ELSE LET txn == transactions(batch)[i] IN
         IF txn_is_already_committed(txn, cache)
         THEN [ok |-> FALSE, cache |-> cache]
         ELSE IF ~check_transaction_dependencies(txn, committed_txn_cache)
         THEN [ok |-> FALSE, cache |-> CacheRemoveBatch(cache, batch)]
         ELSE check_batch_dependencies(batch, i + 1, CacheAdd(cache, txn))

\* The loop of summarize over self.pending_batches, from position i on, with
\* the reconciliation cache, the builder's batches and the local
\* pending_batches as they stand.  aborted: the loop returned Ok(None).
RECURSIVE reconcile(_, _, _, _, _)
reconcile(res, i, cache, builder, pending) ==
    IF i > Len(pending_batches)
    THEN [aborted |-> FALSE, builder |-> builder, pending |-> pending]
    ELSE LET batch == pending_batches[i] IN
         IF batch \in batches_w_no_results(res)
         THEN reconcile(res, i + 1, cache, builder,
                        IF batch \notin injected_batch_ids THEN Append(pending, batch)
                                                           ELSE pending)
         ELSE IF batch \in valid_batch_ids(res)
         THEN LET chk == check_batch_dependencies(batch, 1, cache) IN
              IF ~chk.ok
              THEN [aborted |-> TRUE, builder |-> builder,
                    pending |-> FilterSeq(pending_batches,
                                          SeqToSet(pending_batches) \ {batch})]
              ELSE reconcile(res, i + 1, CacheAddBatch(chk.cache, batch),
                             Append(builder, batch), pending)
         ELSE reconcile(res, i + 1, cache, builder, pending)

\* a summarize without its first early return
summary_is_never_reused == FALSE

\* summarize returns the stored summary when there is one
summary_is_set == summary # None

\* a summarize that goes on to the scheduler whatever pending_batches holds
never_block_empty(force) == FALSE

\* summarize fails with BlockEmpty when not forced and nothing is pending
block_empty(force) == ~force /\ pending_batches = <<>>

Result(kind, digest) == [kind |-> kind, digest |-> digest]

\* summarize(force), with res what scheduler.complete returns if it is asked:
\* the value returned and the fields after the call.  ran: the call went past
\* its early returns and asked the scheduler to finalize and complete.
summarize(force, res) ==
    IF summary_is_set
    THEN [result |-> Result("Ok_Some", summary[1]), ran |-> FALSE, summary |-> summary,
          remaining |-> remaining_batches, builder |-> builder_batches]
    ELSE IF block_empty(force)
    THEN [result |-> Result("Err_BlockEmpty", <<>>), ran |-> FALSE, summary |-> summary,
          remaining |-> remaining_batches, builder |-> builder_batches]
    ELSE IF injected_batch_ids = valid_batch_ids(res)
    THEN [result |-> Result("Ok_None", <<>>), ran |-> TRUE, summary |-> summary,
          remaining |-> remaining_batches, builder |-> builder_batches]
    ELSE LET rec == reconcile(res, 1, {}, builder_batches, <<>>) IN
         IF rec.aborted \/ ~res.ending_state_hash \/ rec.builder = <<>>
         THEN [result |-> Result("Ok_None", <<>>), ran |-> TRUE, summary |-> summary,
               remaining |-> remaining_batches, builder |-> rec.builder]
         ELSE [result |-> Result("Ok_Some", sha256_digest_strs(rec.builder)),
               ran |-> TRUE, summary |-> Some(sha256_digest_strs(rec.builder)),
               remaining |-> rec.pending, builder |-> rec.builder]

\* The execution results a call gets: the scheduler's, once it has completed
ResultsOnComplete ==
    IF exec_results # None THEN {exec_results[1]} ELSE ExecutionResults

\* What the scheduler does when the body of summarize calls finalize(true)
\* and complete(true): both succeed, finalize fails, or complete fails (an
\* Err, or no results)
SchedulerAnswers == {"ok", "finalize_failed", "complete_failed"}

\* The answers to consider for a call: they matter only to a call that gets
\* past the early returns of summarize
SchedulerAnswersFor(s) == IF s.ran THEN SchedulerAnswers ELSE {"ok"}

\* a summarize that carries on after a failed scheduler call
failure_is_ignored(answer) == FALSE

\* the unwraps of the scheduler calls panic when the call failed
unwrap_panics(answer) == answer # "ok"

\* The fields a run of summarize leaves behind
SummarizeEffect(s, res) ==
    /\ summary' = s.summary
    /\ remaining_batches' = s.remaining
    /\ builder_batches' = s.builder
    /\ sched_finalized' = (sched_finalized \/ s.ran)
    /\ exec_results' = IF s.ran THEN Some(res) ELSE exec_results
    /\ sumRuns' = IF s.ran THEN sumRuns + 1 ELSE sumRuns
    /\ crashed' = crashed

\* A panic at one of the scheduler calls of summarize: nothing was assigned
SummarizePanics(op, answer) ==
    /\ crashed' = TRUE
    /\ sched_finalized' = (sched_finalized \/ answer = "complete_failed")
    /\ lastSum' = NoSummarize
    /\ last' = [NoLast EXCEPT !.op = op, !.result = Result("panic_scheduler", <<>>),
                              !.scheduler = answer]
    /\ UNCHANGED <<summary, remaining_batches, builder_batches, exec_results, sumRuns>>

Summarize(force) ==
    /\ ~crashed
    /\ \E res \in ResultsOnComplete :
         LET s == summarize(force, res) IN
         \E answer \in SchedulerAnswersFor(s) :
           /\ s.ran => sumRuns < MaxSummarizeRuns
           /\ IF unwrap_panics(answer)
              THEN SummarizePanics("summarize", answer)
              ELSE /\ SummarizeEffect(s, res)
                   /\ lastSum' = [force |-> force, result |-> s.result]
                   /\ last' = [NoLast EXCEPT !.op = "summarize", !.result = s.result,
                                             !.scheduler = answer]
    /\ UNCHANGED <<max_batches, settings_view, pending_batches, pending_batch_ids,
                   injected_batch_ids, committed_txn_cache, sched_batches,
                   sched_cancelled, polls, disciplined, addCalls>>

\* ------------------------------------------------------------------- finalize
\* a build_result that reports a result even when there is no last batch
build_result_without_last_batch(block, remaining) ==
    [NoLast EXCEPT !.op = "finalize", !.result = Result("Ok", <<>>),
                   !.block = block, !.remaining = remaining,
                   !.last_batch = IF pending_batches # <<>>
                                  THEN Some(pending_batches[Len(pending_batches)])
                                  ELSE None,
                   !.injected = injected_batch_ids]

\* build_result(block) on the fields given: Err(BlockEmpty) without a last batch
build_result(block, remaining) ==
    IF pending_batches # <<>>
    THEN [NoLast EXCEPT !.op = "finalize", !.result = Result("Ok", <<>>),
                        !.block = block, !.remaining = remaining,
                        !.last_batch = Some(pending_batches[Len(pending_batches)]),
                        !.injected = injected_batch_ids]
    ELSE [NoLast EXCEPT !.op = "finalize", !.result = Result("Err_BlockEmpty", <<>>)]

Finalize(force) ==
    /\ ~crashed
    /\ \E res \in ResultsOnComplete :
         LET s == summarize(force, res) IN
         IF summary = None
         THEN \E answer \in SchedulerAnswersFor(s) :
                /\ s.ran => sumRuns < MaxSummarizeRuns
                /\ IF unwrap_panics(answer)
                   THEN SummarizePanics("finalize", answer)
                   ELSE /\ SummarizeEffect(s, res)
                        /\ lastSum' = [force |-> force, result |-> s.result]
                        /\ last' = [(IF s.result.kind = "Err_BlockEmpty"
                                      THEN [NoLast EXCEPT !.op = "finalize",
                                                          !.result = s.result]
                                      ELSE IF s.summary = None
                                      THEN build_result(None, s.remaining)
                                      ELSE build_result(Some(s.builder), s.remaining))
                                       EXCEPT !.scheduler = answer]
         ELSE /\ UNCHANGED <<summary, remaining_batches, builder_batches, sched_finalized,
                             exec_results, sumRuns, lastSum, crashed>>
              /\ last' = build_result(Some(builder_batches), remaining_batches)
    /\ UNCHANGED <<max_batches, settings_view, pending_batches, pending_batch_ids,
                   injected_batch_ids, committed_txn_cache, sched_batches,
                   sched_cancelled, polls, disciplined, addCalls>>

\* --------------------------------------------------------------------- cancel
\* a cancel that also drops what the candidate holds
cancel_dropping_pending_batches ==
    /\ ~crashed
    /\ sched_cancelled' = TRUE
    /\ pending_batches' = <<>>
    /\ pending_batch_ids' = {}
    /\ last' = [NoLast EXCEPT !.op = "cancel"]
    /\ UNCHANGED <<max_batches, settings_view, summary, remaining_batches, injected_batch_ids,
                   committed_txn_cache, builder_batches, sched_batches, sched_finalized,
                   exec_results, crashed, polls, disciplined, addCalls, sumRuns, lastSum>>

\* cancel(): scheduler.cancel(), which is taken to succeed in every state of
\* the scheduler
Cancel ==
    /\ ~crashed
    /\ sched_cancelled' = TRUE
    /\ last' = [NoLast EXCEPT !.op = "cancel"]
    /\ UNCHANGED <<max_batches, settings_view, summary, remaining_batches, pending_batches,
                   pending_batch_ids, injected_batch_ids, committed_txn_cache,
                   builder_batches, sched_batches, sched_finalized, exec_results, crashed,
                   polls, disciplined, addCalls, sumRuns, lastSum>>

\* What the injectors would do matters only to a call that polls them
PollOutcomes ==
    IF polls_injectors THEN InjectorOutcomes
    ELSE {[j \in Injectors |-> ReturnsList(<<>>)]}

Next ==
    \/ \E batch \in ExternalBatches, out \in PollOutcomes :
         \E refusal \in RefusalsFor(batch) : AddBatch(batch, out, refusal)
    \/ \E force \in BOOLEAN : Summarize(force)
    \/ \E force \in BOOLEAN : Finalize(force)
    \/ Cancel

Spec == Init /\ [][Next]_vars

\* ===================================================================== claims
TxnsOf(batch) == SeqToSet(transactions(batch))

Positions == 1..Len(pending_batches)

\* C1  No double-commit: no batch in pending_batches contains a transaction
\* the commit store reports as committed.
NoDoubleCommit ==
    \A i \in Positions : TxnsOf(pending_batches[i]) \cap StoreTxns = {}

\* The first add_batch call offered a batch holding a committed transaction
\* (only B5 can end the first call this way) and the batch was dropped.
NoDoubleCommitWitness ==
    /\ addCalls = 1
    /\ last.op = "add_batch"
    /\ last.outcome = "txn_committed"
    /\ pending_batches = <<>>

\* C2  Dependency ordering: every dependency of every transaction of a pending
\* batch is in the commit store, or is a transaction of a batch that precedes it
\* in pending_batches, or is an earlier transaction of the batch itself (a batch
\* with a dependency satisfied in none of these ways is not appended).
DependencyOrdering ==
    \A i \in Positions :
      LET txns == transactions(pending_batches[i]) IN
      \A k \in 1..Len(txns) : \A dep \in dependencies(txns[k]) :
         \/ dep \in StoreTxns
         \/ \E j \in 1..(i - 1) : dep \in TxnsOf(pending_batches[j])
         \/ \E m \in 1..(k - 1) : txns[m] = dep

\* C3  No re-admission: no transaction identifier occurs in two batches of
\* pending_batches.
NoTxnInTwoBatches ==
    \A i, j \in Positions :
      i # j => TxnsOf(pending_batches[i]) \cap TxnsOf(pending_batches[j]) = {}

\* C4  Rollback on missing dependency: an add_batch that rejects its batch for
\* a missing dependency appends nothing and leaves the admission-time cache
\* exactly as it was before the call.
RollbackOnMissingDependency ==
    [][(addCalls' = addCalls + 1 /\ last'.outcome = "missing_dep")
         => (committed_txn_cache' = committed_txn_cache
             /\ pending_batches' = pending_batches)]_vars

\* C5  Injection exactly-once: each injector is polled at most once in the
\* life of the candidate, and only by the add_batch call that admits the first
\* batch (stated for calls that return; a panic ends the candidate).
InjectionExactlyOnce ==
    \A j \in Injectors :
      /\ polls[j] <= 1
      /\ (polls[j] > 0 /\ ~crashed) => pending_batches # <<>>

\* C6  max_batches is a hard cap: with max_batches > 0 and a caller that calls
\* add_batch only when can_add_batch is true, pending_batches never holds more
\* than max_batches batches; and when it holds exactly max_batches,
\* can_add_batch is false.
MaxBatchesHardCap ==
    /\ (max_batches > 0 /\ disciplined) => Len(pending_batches) <= max_batches
    /\ (max_batches > 0 /\ Len(pending_batches) = max_batches) => ~can_add_batch

\* C7  I1: pending_batch_ids is exactly the set of identifiers of the batches
\* in pending_batches.
PendingIdsMirrorPendingBatches ==
    pending_batch_ids = SeqToSet(pending_batches)

\* Injected and caller-supplied batches were admitted and summarize has run.
PendingIdsMirrorWitness ==
    /\ Len(pending_batches) >= 3
    /\ pending_batches[1] \in injected_batch_ids
    /\ sumRuns > 0

\* C8  I4 prefix: the pending batches whose identifier is in injected_batch_ids
\* form a prefix of pending_batches: no injected batch comes after a
\* caller-supplied batch.
InjectedBatchesFormPrefix ==
    \A i \in Positions :
      pending_batches[i] \in injected_batch_ids
        => \A j \in 1..(i - 1) : pending_batches[j] \in injected_batch_ids

\* Two injected batches, then caller-supplied batches admitted by two calls.
InjectedPrefixWitness ==
    /\ Len(pending_batches) = 4
    /\ pending_batches[2] \in injected_batch_ids
    /\ pending_batches[3] \notin injected_batch_ids
    /\ pending_batches[4] \notin injected_batch_ids

\* C9  I5: once summary is set, no later call changes or clears it.
SummaryImmutable ==
    [][summary # None => summary' = summary]_vars

\* add_batch was called on a candidate whose summary is set.
SummaryImmutableWitness ==
    /\ summary # None
    /\ last.op = "add_batch"

InjectedBatches == {InjectedBatchOf(j) : j \in Injectors}

\* C11  Single-use state machine: once summarize has completed with a summary
\* or with "no block" (by itself or inside finalize), the scheduler having been
\* finalized and completed for this candidate, can_add_batch is false in every
\* later state.
NeverReopened ==
    (sched_finalized /\ ~crashed) => ~can_add_batch

\* C12  summarize(force=false) on a candidate with no pending batch and no
\* summary returns the BlockEmpty error, does not ask the scheduler to finalize
\* or complete, and leaves every field of the candidate unchanged.
UnforcedSummarizeOfEmptyIsBlockEmpty ==
    [][(/\ last'.op = "summarize"
        /\ lastSum'.result # NoCall
        /\ lastSum'.force = FALSE
        /\ pending_batches = <<>>
        /\ summary = None)
         => (/\ last'.result.kind = "Err_BlockEmpty"
             /\ UNCHANGED <<max_batches, settings_view, summary, remaining_batches, pending_batches,
                            pending_batch_ids, injected_batch_ids, committed_txn_cache,
                            builder_batches, sched_batches, sched_finalized,
                            sched_cancelled, exec_results, sumRuns>>)]_vars

\* summarize(force=false) returned BlockEmpty on a candidate that had polled
\* its injectors and cached a transaction for a batch it then refused.
UnforcedSummarizeOfEmptyWitness ==
    /\ last.op = "summarize"
    /\ last.result.kind = "Err_BlockEmpty"
    /\ lastSum.force = FALSE
    /\ pending_batches = <<>>
    /\ injected_batch_ids # {}
    /\ committed_txn_cache # {}

\* C13  finalize, for either value of force, returns the BlockEmpty error if
\* and only if pending_batches is empty (no batch was ever admitted); when
\* pending_batches is not empty it returns a result whose last_batch is the
\* last element of pending_batches, with or without a block.  (A finalize
\* ended by a scheduler panic returns nothing.)
FinalizeBlockEmptyIffNothingAdmitted ==
    (last.op = "finalize" /\ last.result.kind # "panic_scheduler") =>
      /\ (last.result.kind = "Err_BlockEmpty") <=> (pending_batches = <<>>)
      /\ pending_batches # <<>> =>
            /\ last.result.kind = "Ok"
            /\ last.last_batch = Some(pending_batches[Len(pending_batches)])

\* finalize(force=true) on a candidate with nothing pending: summarize ran the
\* scheduler to completion and build_result found no last batch.
FinalizeBlockEmptyWitness ==
    /\ last.op = "finalize"
    /\ last.result.kind = "Err_BlockEmpty"
    /\ lastSum.force = TRUE
    /\ sched_finalized

\* C14  No degenerate block: whenever there is a summary, the scheduler
\* produced an ending state hash and the assembled block holds at least one
\* batch that is not an injected batch (when the only batches that executed
\* valid are injected ones, all or some of them, there is no summary).
NoDegenerateBlock ==
    summary # None =>
      /\ exec_results # None
      /\ exec_results[1].ending_state_hash
      /\ \E i \in 1..Len(builder_batches) : builder_batches[i] \notin InjectedBatches

\* C15  Block content and order: whenever there is a summary, it is the
\* digest of the batch sequence of the assembled block, and that sequence is
\* exactly the subsequence of pending_batches whose transactions all executed
\* valid, in admission order.
BlockIsValidSubsequence ==
    summary # None =>
      /\ summary = Some(sha256_digest_strs(builder_batches))
      /\ builder_batches = FilterSeq(pending_batches, valid_batch_ids(exec_results[1]))

\* The pending batches the scheduler reported an invalid transaction for
InvalidBatches ==
    IF exec_results = None THEN {}
    ELSE {b \in DOMAIN exec_results[1].batch_results :
            exec_results[1].batch_results[b] = "invalid"}

\* C16  A pending batch for which the scheduler reports an invalid
\* transaction is never in the assembled block and never in remaining_batches,
\* neither the field nor the list finalize returns.
InvalidBatchesAreDiscarded ==
    \A b \in InvalidBatches :
      /\ b \notin SeqToSet(builder_batches)
      /\ b \notin SeqToSet(remaining_batches)
      /\ last.op = "finalize" => b \notin SeqToSet(last.remaining)

\* finalize returned a block and a batch to resubmit while a caller-supplied
\* pending batch had executed invalid.
InvalidBatchesAreDiscardedWitness ==
    /\ last.op = "finalize"
    /\ last.block # None
    /\ last.remaining # <<>>
    /\ (InvalidBatches \cap SeqToSet(pending_batches)) \ InjectedBatches # {}

\* The batches the scheduler was given and reported no result for
UnexecutedBatches ==
    IF exec_results = None THEN {}
    ELSE {b \in DOMAIN exec_results[1].batch_results :
            exec_results[1].batch_results[b] = "none"}

\* C17  Deferral of unexecuted batches: whenever there is a summary,
\* remaining_batches is exactly the subsequence of pending_batches that have no
\* execution result and are not injected, in admission order, and none of them
\* is in the block; an injected batch is never in remaining_batches.
UnexecutedBatchesAreDeferred ==
    /\ summary # None =>
          /\ remaining_batches =
                FilterSeq(pending_batches, UnexecutedBatches \ InjectedBatches)
          /\ SeqToSet(remaining_batches) \cap SeqToSet(builder_batches) = {}
    /\ SeqToSet(remaining_batches) \cap InjectedBatches = {}

\* A summary was produced while a caller-supplied batch and an injected batch
\* had no execution result.
UnexecutedBatchesAreDeferredWitness ==
    /\ summary # None
    /\ remaining_batches # <<>>
    /\ SeqToSet(pending_batches) \cap UnexecutedBatches \cap InjectedBatches # {}

\* C18  When finalize returns a result without a block, the result's
\* remaining_batches holds every pending batch that is not injected and had no
\* execution result.
NoBlockStillReportsRemaining ==
    (last.op = "finalize" /\ last.result.kind = "Ok" /\ last.block = None) =>
      \A i \in Positions :
        pending_batches[i] \in UnexecutedBatches \ InjectedBatches
          => pending_batches[i] \in SeqToSet(last.remaining)

\* C19  Rule rejection drops only the new batch: an add_batch whose sequence
\* pending_batches ++ injected ++ [new batch] the rule enforcer rejects leaves
\* pending_batches and pending_batch_ids as they were and submits nothing to
\* the scheduler.
RuleRejectionDropsOnlyNewBatch ==
    [][(last'.op = "add_batch" /\ last'.verdict = "Ok_false")
         => UNCHANGED <<pending_batches, pending_batch_ids, sched_batches>>]_vars

\* The enforcer rejected a batch offered after others were admitted behind
\* injected batches.
RuleRejectionWitness ==
    /\ last.op = "add_batch"
    /\ last.verdict = "Ok_false"
    /\ Len(pending_batches) >= 2
    /\ pending_batches[1] \in InjectedBatches

InjectorFailureIsNotFatal ==
    (last.op = "add_batch" /\ last.polled) =>
      /\ last.outcome # "panic_block_start"
      /\ \A j \in Injectors : polls[j] > 0

\* C23  A rule-enforcer construction error or evaluation error rejects only
\* the batch being added: add_batch returns normally, pending_batches and
\* pending_batch_ids are unchanged, nothing is submitted to the scheduler, and
\* the candidate stays usable.
EnforcerErrorRejectsOnlyTheBatch ==
    [][(/\ last'.op = "add_batch"
        /\ last'.verdict \in {"Err_new", "Err_InvalidBatches", "Err_other"})
         => (/\ ~crashed'
             /\ UNCHANGED <<pending_batches, pending_batch_ids, sched_batches>>)]_vars

\* C24  A scheduler failure is fatal to the candidate: a failed submit in
\* add_batch and a failed finalize or complete in summarize (or in the
\* summarize of finalize) end the operation without a result, and the call sets
\* no summary and adds nothing to the block.
SchedulerFailureIsFatal ==
    [][last'.scheduler # "ok"
         => (/\ crashed'
             /\ summary' = summary
             /\ builder_batches' = builder_batches
             /\ remaining_batches' = remaining_batches
             /\ last'.block = None
             /\ last'.result.kind \notin {"Ok", "Ok_Some", "Ok_None"})]_vars

\* complete failed in the summarize of a finalize call on a candidate holding
\* two batches, after a first summarize had run.
SchedulerFailureIsFatalWitness ==
    /\ last.op = "finalize"
    /\ last.scheduler = "complete_failed"
    /\ Len(pending_batches) >= 2
    /\ sumRuns = 1

\* C25  Reconciliation checks dependencies against the surviving prefix:
\* whenever there is a summary, every dependency of every transaction in the
\* block is in the commit store, or is a transaction of an earlier batch of the
\* block, or an earlier transaction of the same batch.
BlockDependenciesSatisfied ==
    summary # None =>
      \A i \in 1..Len(builder_batches) :
        LET txns == transactions(builder_batches[i]) IN
        \A k \in 1..Len(txns) : \A dep \in dependencies(txns[k]) :
           \/ dep \in StoreTxns
           \/ \E j \in 1..(i - 1) : dep \in TxnsOf(builder_batches[j])
           \/ \E m \in 1..(k - 1) : txns[m] = dep

\* What the loop of summarize does on the candidate as it stands, with the
\* results the scheduler gave
LastReconciliation == reconcile(exec_results[1], 1, {}, <<>>, <<>>)

\* finalize has just returned from a summarize whose loop stopped at a valid
\* batch that failed the dependency re-check
ReconciliationStopped ==
    /\ last.op = "finalize"
    /\ last.result.kind = "Ok"
    /\ summary = None
    /\ injected_batch_ids # valid_batch_ids(exec_results[1])
    /\ LastReconciliation.aborted

\* The positions of pending_batches from the batch that failed the re-check on
FromFailingBatchOn ==
    LET failing == CHOOSE b \in SeqToSet(pending_batches) :
                      b \notin SeqToSet(LastReconciliation.pending)
        first == CHOOSE i \in Positions :
                    /\ pending_batches[i] = failing
                    /\ \A j \in 1..(i - 1) : pending_batches[j] # failing
    IN  {i \in Positions : i >= first}

\* C26  When a batch that executed valid fails the reconciliation re-check,
\* reconciliation stops: there is no summary and no block, and the failing
\* batch and every batch after it in pending_batches are in the
\* remaining_batches finalize reports.
StoppedReconciliationDefersTheRest ==
    ReconciliationStopped =>
      /\ last.block = None
      /\ \A i \in FromFailingBatchOn : pending_batches[i] \in SeqToSet(last.remaining)

\* C27  No partial commitment of a rejected batch: every transaction
\* identifier held in the admission-time cache is a transaction of a batch in
\* pending_batches (stated for candidates no panic has ended).
NoPartialCommitment ==
    ~crashed =>
      \A txn \in committed_txn_cache :
        \E i \in Positions : txn \in TxnsOf(pending_batches[i])

\* C28  injected_batch_ids mirrors pending_batches: every identifier in
\* injected_batch_ids, and in the injected_batch_ids finalize returns, is the
\* identifier of a batch in pending_batches (stated for candidates no panic
\* has ended).
InjectedIdsMirrorPendingBatches ==
    ~crashed =>
      /\ injected_batch_ids \subseteq SeqToSet(pending_batches)
      /\ last.op = "finalize" => last.injected \subseteq SeqToSet(pending_batches)

\* C29  No batch is appended to the block-assembly object more than once: its
\* batch list never holds a batch twice.
NoDuplicateInBlockBuilder ==
    \A i, j \in 1..Len(builder_batches) :
      i # j => builder_batches[i] # builder_batches[j]

====
